---- MODULE Spec2Model ----
(***************************************************************************)
(* Model of pyblish_integration/lib.py: the host-side bootstrap of the     *)
(* control channel to the Pyblish QML worker.                              *)
(*                                                                         *)
(* The host's main thread calls setup(), show(), preload() and             *)
(* register_python_executable().  Every setup() starts two daemon threads, *)
(* the RPC server and the heartbeat emitter, one after the other; each     *)
(* t.start() returns once the new thread has begun to run, so the threads  *)
(* take steps while setup() is still under way.  The worker, the operating *)
(* system and the network are the environment: every RPC either answers    *)
(* or fails with socket.error/socket.timeout, Popen either spawns or       *)
(* raises OSError, poll() finds the child alive or exited, and starting a  *)
(* thread either works or raises.                                          *)
(*                                                                         *)
(* Optional values (Python None) are sets of at most one element.          *)
(***************************************************************************)
EXTENDS Integers, Sequences, FiniteSets, TLC

\* ------------------------------------------------------------- bounds
\* Number of setup()/show()/preload() invocations one behaviour makes.
MaxOps == 2
\* Number of setup() invocations in the behaviours checked for liveness.
MaxFairOps == 1

\* ------------------------------------------------- optional values
None == {}
Some(v) == {v}
Get(o) == CHOOSE v \in o : TRUE

\* ---------------------------------------------------- module constants
CREATE_NO_WINDOW == 134217728
PYBLISH_QML_CONSOLE == "PYBLISH_QML_CONSOLE"
PYBLISH_CLIENT_PORT == "PYBLISH_CLIENT_PORT"
\* pyblish_qml.server.first_port, the well-known default port; the number
\* is set in pyblish_qml, 9001 stands for it here.
first_port == 9001
EnvKeys == {PYBLISH_QML_CONSOLE, PYBLISH_CLIENT_PORT}

\* What the worker answers to find_available_port(): the default port
\* itself or another one.
WorkerPorts == {first_port, first_port + 1}
Executables == {"mayapy"}
Platforms == {"nt", "posix"}

\* ------------------------------------------------------ str(), truth
DigitChar(d) ==
    CASE d = 0 -> "0" [] d = 1 -> "1" [] d = 2 -> "2" [] d = 3 -> "3"
      [] d = 4 -> "4" [] d = 5 -> "5" [] d = 6 -> "6" [] d = 7 -> "7"
      [] d = 8 -> "8" [] d = 9 -> "9"

RECURSIVE StrNat(_)
StrNat(n) == IF n < 10 THEN DigitChar(n)
             ELSE StrNat(n \div 10) \o DigitChar(n % 10)

\* str(self.port): "None" when the port is unset, its decimal digits otherwise.
Str(o) == IF o = None THEN "None" ELSE StrNat(Get(o))

\* Python truth of an optional string: neither None nor "".
Truthy(o) == o # None /\ Get(o) # ""

VARIABLES
    port,        \* self.port: None or the negotiated port
    proxy,       \* self.proxy: None or the handle of the cached WorkerProxy
    executable,  \* self.executable: None or the registered interpreter
    environ,     \* os.environ, the two variables the module uses
    os_name,     \* os.name
    pc,          \* where the main thread is
    exc,         \* the exception in flight on the main thread, or "none"
    servers,     \* the RPC server threads started, in order
    emitters,    \* the heartbeat emitter threads started, in order
    launch,      \* None or the latest subprocess.Popen call
    op,          \* record of the current (or last) call on the main thread
    nops         \* setup()/show()/preload() invocations begun

vars == <<port, proxy, executable, environ, os_name, pc, exc,
          servers, emitters, launch, op, nops>>

\* The module state a caller can observe.
IntegrationState ==
    [port |-> port, proxy |-> proxy, executable |-> executable]

\* How the latest setup() call before a call made now ended.
NoSetup == [status |-> "none", raised |-> "none", log |-> <<>>]

LastSetup ==
    IF op.kind = "setup"
    THEN [status |-> op.status, raised |-> op.raised, log |-> op.log]
    ELSE op.prev

\* What a call on the main thread has done so far.
NewOp(kind) ==
    [kind       |-> kind,
     prev       |-> LastSetup,  \* the latest setup() before this call
     console    |-> FALSE,      \* setup's console argument
     status     |-> "running",  \* "running", "returned" or "raised"
     raised     |-> "none",     \* the exception that left the call
     find       |-> "none",     \* find_available_port(): "ok" or "fail"
     found      |-> None,       \* the port the worker answered
     launches   |-> 0,          \* Popen calls made
     spawned    |-> 0,          \* Popen calls that returned a process
     polled     |-> "none",     \* proc.poll(): "alive" or "exited"
     first      |-> "none",     \* show's first proxy.show: "ok" or "fail"
     final      |-> "none",     \* show's final proxy.show: "ok" or "fail"
     showCalls  |-> 0,          \* proxy.show(port) calls made
     showAcks   |-> 0,          \* proxy.show(port) calls the worker received
     servers    |-> 0,          \* server threads started by this call
     emitters   |-> 0,          \* emitter threads started by this call
     log        |-> <<>>]       \* log.debug messages of this call

Init ==
    /\ port = None
    /\ proxy = None
    /\ executable = None
    /\ \E c \in {None, Some("1")} :
          environ = [k \in EnvKeys |-> IF k = PYBLISH_QML_CONSOLE THEN c ELSE None]
    /\ os_name \in Platforms
    /\ pc = "idle"
    /\ exc = "none"
    /\ servers = <<>>
    /\ emitters = <<>>
    /\ launch = None
    /\ op = [kind |-> "none", prev |-> NoSetup, console |-> FALSE,
             status |-> "returned",
             raised |-> "none", find |-> "none", found |-> None,
             launches |-> 0, spawned |-> 0, polled |-> "none",
             first |-> "none", final |-> "none", showCalls |-> 0,
             showAcks |-> 0, servers |-> 0, emitters |-> 0, log |-> <<>>]
    /\ nops = 0

\* pyblish_qml.client.proxy(): every call makes a new handle, named here
\* by the thread that made it and the ordinal of the call (main thread) or
\* of the emitter thread.
client_proxy(thread, n) == [thread |-> thread, n |-> n]

\* ------------------------------------------------------------ preload
registered_python_executable == executable

\* The keyword arguments preload() hands to subprocess.Popen.
preload_kwargs ==
    LET console == Truthy(environ[PYBLISH_QML_CONSOLE])
        exe == IF Truthy(registered_python_executable)
               THEN Get(registered_python_executable) ELSE "python"
    IN  [args |-> <<exe, "-m", "pyblish_qml">>,
         creationflags |-> IF os_name = "nt" /\ ~console
                           THEN CREATE_NO_WINDOW ELSE 0]

\* subprocess.Popen(**kwargs): the child inherits os.environ as it is now.
Popen(spawnOk) ==
    Some([kwargs |-> preload_kwargs, environ |-> environ, spawned |-> spawnOk])

\* The call record after a preload().
Preloaded(o, spawnOk) ==
    [o EXCEPT !.launches = @ + 1,
              !.spawned = @ + (IF spawnOk THEN 1 ELSE 0)]

\* -------------------------------------------------------------- setup
\* Faulty variant of setup_begin: console=False clears the flag.
setup_begin_resets_console(console) ==
    /\ pc = "idle"
    /\ nops < MaxOps
    /\ environ' = [environ EXCEPT ![PYBLISH_QML_CONSOLE] =
                                     IF console THEN Some("1") ELSE None]
    /\ proxy' = Some(client_proxy("main", nops + 1))
    /\ pc' = "setup_find"
    /\ exc' = "none"
    /\ op' = [NewOp("setup") EXCEPT !.console = console]
    /\ nops' = nops + 1
    /\ UNCHANGED <<port, executable, os_name, servers, emitters, launch>>

\* setup(console), up to the find_available_port() call.
setup_begin(console) ==
    /\ pc = "idle"
    /\ nops < MaxOps
    /\ environ' = IF console
                  THEN [environ EXCEPT ![PYBLISH_QML_CONSOLE] = Some("1")]
                  ELSE environ
    /\ proxy' = Some(client_proxy("main", nops + 1))
    /\ pc' = "setup_find"
    /\ exc' = "none"
    /\ op' = [NewOp("setup") EXCEPT !.console = console]
    /\ nops' = nops + 1
    /\ UNCHANGED <<port, executable, os_name, servers, emitters, launch>>

\* Faulty variant of setup_find: the worker's answer is dropped and the
\* default port is stored instead.
setup_find_ignores_answer(answer) ==
    /\ pc = "setup_find"
    /\ IF answer # None
       THEN /\ port' = Some(first_port)
            /\ op' = [op EXCEPT !.find = "ok", !.found = answer]
            /\ pc' = "setup_finally"
       ELSE /\ port' = port
            /\ op' = [op EXCEPT !.find = "fail"]
            /\ pc' = "setup_except"
    /\ UNCHANGED <<proxy, executable, environ, os_name, exc,
                   servers, emitters, launch, nops>>

\* self.port = self.proxy.find_available_port(): the worker answers with
\* a port (answer = Some(p)) or the call fails with socket.error/timeout
\* (answer = None).
setup_find(answer) ==
    /\ pc = "setup_find"
    /\ IF answer # None
       THEN /\ port' = answer
            /\ op' = [op EXCEPT !.find = "ok", !.found = answer]
            /\ pc' = "setup_finally"
       ELSE /\ port' = port
            /\ op' = [op EXCEPT !.find = "fail"]
            /\ pc' = "setup_except"
    /\ UNCHANGED <<proxy, executable, environ, os_name, exc, servers, emitters, launch, nops>>

\* Faulty variant of setup_except: the fallback to the default port is
\* forgotten, self.port keeps whatever it held.
setup_except_keeps_port(spawnOk) ==
    /\ pc = "setup_except"
    /\ port' = port
    /\ launch' = Popen(spawnOk)
    /\ op' = Preloaded(op, spawnOk)
    /\ exc' = IF spawnOk THEN "none" ELSE "OSError"
    /\ pc' = IF spawnOk THEN "setup_poll" ELSE "setup_finally"
    /\ UNCHANGED <<proxy, executable, environ, os_name,
                   servers, emitters, nops>>

\* The except clause: self.port = first_port; proc = preload().
\* Popen raises OSError when the OS cannot spawn the interpreter.
setup_except(spawnOk) ==
    /\ pc = "setup_except"
    /\ port' = Some(first_port)
    /\ launch' = Popen(spawnOk)
    /\ op' = Preloaded(op, spawnOk)
    /\ exc' = IF spawnOk THEN "none" ELSE "OSError"
    /\ pc' = IF spawnOk THEN "setup_poll" ELSE "setup_finally"
    /\ UNCHANGED <<proxy, executable, environ, os_name, servers, emitters, nops>>

\* assert proc.poll() is None
setup_poll(alive) ==
    /\ pc = "setup_poll"
    /\ op' = [op EXCEPT !.polled = IF alive THEN "alive" ELSE "exited"]
    /\ exc' = IF alive THEN "none" ELSE "AssertionError"
    /\ pc' = "setup_finally"
    /\ UNCHANGED <<port, proxy, executable, environ, os_name, servers, emitters, launch, nops>>

\* ------------------------------------------------------------- _serve
\* The threads _serve() makes.  A thread is "created" from the moment
\* t.start() hands it to the scheduler until it begins to run; t.start()
\* returns to _serve() only then.
NewServer(p) == [port |-> p, pc |-> "created"]

NewEmitter(p) ==
    [port |-> p, proxy |-> None, pc |-> "created", caught |-> FALSE]

\* The thread the latest t.start() made has begun to run.
ServerBegun == servers[Len(servers)].pc # "created"
EmitterBegun == emitters[Len(emitters)].pc # "created"

\* What the inner try of the finally clause logs.
ServeReturned == <<"Server running", "Integration successful!">>
ServeRaised == <<"traceback", "Integration failed..">>

\* The end of setup(): the log lines of the inner try/except, then the
\* exception in flight (if any) leaves the call.
SetupEnds(o, lines) ==
    [o EXCEPT !.log = lines,
              !.status = IF exc = "none" THEN "returned" ELSE "raised",
              !.raised = exc]

\* The finally clause begins: os.environ[PYBLISH_CLIENT_PORT] = str(self.port).
setup_finally ==
    /\ pc = "setup_finally"
    /\ environ' = [environ EXCEPT ![PYBLISH_CLIENT_PORT] = Some(Str(port))]
    /\ pc' = "serve_server"
    /\ UNCHANGED <<port, proxy, executable, os_name, exc, servers, emitters,
                   launch, op, nops>>

\* Faulty variant of serve_server: the server thread is given the default
\* port instead of the port passed to _serve().
serve_server_default_port(ok) ==
    /\ pc = "serve_server"
    /\ IF ok
       THEN /\ servers' = Append(servers, NewServer(Some(first_port)))
            /\ op' = [op EXCEPT !.servers = 1]
            /\ pc' = "serve_heartbeat_emitter"
            /\ exc' = exc
       ELSE /\ servers' = servers
            /\ op' = SetupEnds(op, ServeRaised)
            /\ pc' = "idle"
            /\ exc' = "none"
    /\ UNCHANGED <<port, proxy, executable, environ, os_name, emitters,
                   launch, nops>>

\* _serve(self.port), first round of the loop: t.start() for the server
\* thread.  When start() raises (ok = FALSE) no thread is made, the except
\* clause around _serve() logs the failure and the call ends.
serve_server(ok) ==
    /\ pc = "serve_server"
    /\ IF ok
       THEN /\ servers' = Append(servers, NewServer(port))
            /\ op' = [op EXCEPT !.servers = 1]
            /\ pc' = "serve_heartbeat_emitter"
            /\ exc' = exc
       ELSE /\ servers' = servers
            /\ op' = SetupEnds(op, ServeRaised)
            /\ pc' = "idle"
            /\ exc' = "none"
    /\ UNCHANGED <<port, proxy, executable, environ, os_name, emitters,
                   launch, nops>>

\* Faulty variant of serve_heartbeat_emitter: the module keeps one emitter,
\* the new one takes the place of those started by earlier setup() calls.
serve_heartbeat_emitter_replaces(ok) ==
    /\ pc = "serve_heartbeat_emitter"
    /\ ServerBegun
    /\ IF ok
       THEN /\ emitters' = <<NewEmitter(port)>>
            /\ op' = [op EXCEPT !.emitters = 1]
            /\ pc' = "serve_return"
            /\ exc' = exc
       ELSE /\ emitters' = emitters
            /\ op' = SetupEnds(op, ServeRaised)
            /\ pc' = "idle"
            /\ exc' = "none"
    /\ UNCHANGED <<port, proxy, executable, environ, os_name, servers,
                   launch, nops>>

\* Second round of the loop, once start() of the server thread has
\* returned: t.start() for the heartbeat_emitter thread.
serve_heartbeat_emitter(ok) ==
    /\ pc = "serve_heartbeat_emitter"
    /\ ServerBegun
    /\ IF ok
       THEN /\ emitters' = Append(emitters, NewEmitter(port))
            /\ op' = [op EXCEPT !.emitters = 1]
            /\ pc' = "serve_return"
            /\ exc' = exc
       ELSE /\ emitters' = emitters
            /\ op' = SetupEnds(op, ServeRaised)
            /\ pc' = "idle"
            /\ exc' = "none"
    /\ UNCHANGED <<port, proxy, executable, environ, os_name, servers,
                   launch, nops>>

\* Faulty variant of serve_return: _serve() joins the emitter thread, which
\* never ends, so setup() stays inside _serve().
serve_return_joins ==
    /\ pc = "serve_return"
    /\ emitters[Len(emitters)].pc = "ended"
    /\ op' = SetupEnds(op, ServeReturned)
    /\ exc' = "none"
    /\ pc' = "idle"
    /\ UNCHANGED <<port, proxy, executable, environ, os_name, servers,
                   emitters, launch, nops>>

\* Once start() of the emitter thread has returned: log "Server running",
\* return from _serve(), log "Integration successful!", and the end of
\* setup().
serve_return ==
    /\ pc = "serve_return"
    /\ EmitterBegun
    /\ op' = SetupEnds(op, ServeReturned)
    /\ exc' = "none"
    /\ pc' = "idle"
    /\ UNCHANGED <<port, proxy, executable, environ, os_name, servers,
                   emitters, launch, nops>>

\* --------------------------------------------------------------- show
\* Faulty variant of show_begin: the proxy is created before the port is
\* looked at.
show_begin_proxy_first ==
    /\ pc = "idle"
    /\ nops < MaxOps
    /\ nops' = nops + 1
    /\ proxy' = IF proxy = None
                THEN Some(client_proxy("main", nops + 1)) ELSE proxy
    /\ IF port = None
       THEN /\ op' = [NewOp("show") EXCEPT !.status = "raised",
                                           !.raised = "TypeError"]
            /\ UNCHANGED pc
       ELSE /\ op' = NewOp("show")
            /\ pc' = "show_try"
    /\ UNCHANGED <<port, executable, environ, os_name, exc, servers,
                   emitters, launch>>

\* show(), up to the first proxy.show(self.port).
show_begin ==
    /\ pc = "idle"
    /\ nops < MaxOps
    /\ nops' = nops + 1
    /\ IF port = None
       THEN /\ op' = [NewOp("show") EXCEPT !.status = "raised",
                                           !.raised = "TypeError"]
            /\ UNCHANGED <<proxy, pc>>
       ELSE /\ op' = NewOp("show")
            /\ proxy' = IF proxy = None
                        THEN Some(client_proxy("main", nops + 1)) ELSE proxy
            /\ pc' = "show_try"
    /\ UNCHANGED <<port, executable, environ, os_name, exc, servers,
                   emitters, launch>>

\* try: self.proxy.show(self.port)
show_try(ok) ==
    /\ pc = "show_try"
    /\ op' = [op EXCEPT !.showCalls = @ + 1,
                        !.showAcks = @ + (IF ok THEN 1 ELSE 0),
                        !.first = IF ok THEN "ok" ELSE "fail"]
    /\ pc' = IF ok THEN "show_finally" ELSE "show_except"
    /\ UNCHANGED <<port, proxy, executable, environ, os_name, exc, servers, emitters, launch, nops>>

\* Faulty variant of show_except: the final proxy.show sits after the
\* try statement instead of in a finally clause, so an OSError out of
\* preload() leaves show() at once.
show_except_no_finally(spawnOk) ==
    /\ pc = "show_except"
    /\ launch' = Popen(spawnOk)
    /\ op' = IF spawnOk THEN Preloaded(op, spawnOk)
             ELSE [Preloaded(op, spawnOk) EXCEPT !.status = "raised",
                                                 !.raised = "OSError"]
    /\ exc' = "none"
    /\ pc' = IF spawnOk THEN "show_finally" ELSE "idle"
    /\ UNCHANGED <<port, proxy, executable, environ, os_name,
                   servers, emitters, nops>>

\* Faulty variant of show_except: the re-launch also falls back to the
\* default port, as the except clause of setup() does.
show_except_renegotiates(spawnOk) ==
    /\ pc = "show_except"
    /\ port' = Some(first_port)
    /\ launch' = Popen(spawnOk)
    /\ op' = Preloaded(op, spawnOk)
    /\ exc' = IF spawnOk THEN "none" ELSE "OSError"
    /\ pc' = "show_finally"
    /\ UNCHANGED <<proxy, executable, environ, os_name, servers, emitters,
                   nops>>

\* except (socket.error, socket.timeout): preload()
show_except(spawnOk) ==
    /\ pc = "show_except"
    /\ launch' = Popen(spawnOk)
    /\ op' = Preloaded(op, spawnOk)
    /\ exc' = IF spawnOk THEN "none" ELSE "OSError"
    /\ pc' = "show_finally"
    /\ UNCHANGED <<port, proxy, executable, environ, os_name, servers, emitters, nops>>

\* finally: self.proxy.show(self.port), and the end of the call.  An
\* exception raised by this call replaces the one in flight.
show_finally(ok) ==
    /\ pc = "show_finally"
    /\ op' = [op EXCEPT
                !.showCalls = @ + 1,
                !.showAcks = @ + (IF ok THEN 1 ELSE 0),
                !.final = IF ok THEN "ok" ELSE "fail",
                !.raised = IF ok THEN exc ELSE "socket.error",
                !.status = IF ok /\ exc = "none" THEN "returned"
                           ELSE "raised"]
    /\ exc' = "none"
    /\ pc' = "idle"
    /\ UNCHANGED <<port, proxy, executable, environ, os_name, servers, emitters, launch, nops>>

\* ------------------------------------------------------------ preload()
\* The host calls preload() itself: one Popen, whatever the state of the
\* module.
preload(spawnOk) ==
    /\ pc = "idle"
    /\ nops < MaxOps
    /\ nops' = nops + 1
    /\ launch' = Popen(spawnOk)
    /\ op' = [Preloaded(NewOp("preload"), spawnOk) EXCEPT
                !.status = IF spawnOk THEN "returned" ELSE "raised",
                !.raised = IF spawnOk THEN "none" ELSE "OSError"]
    /\ UNCHANGED <<port, proxy, executable, environ, os_name, pc, exc,
                   servers, emitters>>

\* ------------------------------------------ register_python_executable
register_python_executable(e) ==
    /\ pc = "idle"
    /\ executable # Some(e)
    /\ executable' = Some(e)
    /\ UNCHANGED <<port, proxy, environ, os_name, pc, exc, servers, emitters, launch, op, nops>>

\* ------------------------------------------------- background threads
\* The thread t.start() made begins to run; start() was waiting for this.
server_begin(i) ==
    /\ i \in 1 .. Len(servers)
    /\ servers[i].pc = "created"
    /\ servers' = [servers EXCEPT ![i].pc = "starting"]
    /\ UNCHANGED <<port, proxy, executable, environ, os_name, pc, exc,
                   emitters, launch, op, nops>>

heartbeat_emitter_begin(i) ==
    /\ i \in 1 .. Len(emitters)
    /\ emitters[i].pc = "created"
    /\ emitters' = [emitters EXCEPT ![i].pc = "init"]
    /\ UNCHANGED <<port, proxy, executable, environ, os_name, pc, exc,
                   servers, launch, op, nops>>

\* server(): pyblish_rpc.server.start_production_server(port) binds the
\* port and serves, or fails to bind and the thread dies.
server(i, bound) ==
    /\ i \in 1 .. Len(servers)
    /\ servers[i].pc = "starting"
    /\ servers' = [servers EXCEPT
                     ![i].pc = IF bound THEN "serving" ELSE "failed"]
    /\ UNCHANGED <<port, proxy, executable, environ, os_name, pc, exc,
                   emitters, launch, op, nops>>

\* Faulty variant of heartbeat_proxy: the emitter takes the module's cached
\* handle, self.proxy, instead of making its own.
heartbeat_proxy_shared(i) ==
    /\ i \in 1 .. Len(emitters)
    /\ emitters[i].pc = "init"
    /\ emitters' = [emitters EXCEPT ![i].proxy = proxy,
                                    ![i].pc = "heartbeat"]
    /\ UNCHANGED <<port, proxy, executable, environ, os_name, pc, exc,
                   servers, launch, op, nops>>

\* heartbeat_emitter(): proxy = pyblish_qml.client.proxy()
heartbeat_proxy(i) ==
    /\ i \in 1 .. Len(emitters)
    /\ emitters[i].pc = "init"
    /\ emitters' = [emitters EXCEPT
                      ![i].proxy = Some(client_proxy("heartbeat_emitter", i)),
                      ![i].pc = "heartbeat"]
    /\ UNCHANGED <<port, proxy, executable, environ, os_name, pc, exc,
                   servers, launch, op, nops>>

\* Faulty variant of heartbeat_call: the except clause re-launches the
\* worker, as the except clause of show() does.
heartbeat_call_relaunches(i, ok) ==
    /\ i \in 1 .. Len(emitters)
    /\ emitters[i].pc = "heartbeat"
    /\ emitters' = [emitters EXCEPT
                      ![i].caught = ~ok,
                      ![i].pc = IF ok THEN "sleep" ELSE "heartbeat"]
    /\ launch' = IF ok THEN launch ELSE Popen(TRUE)
    /\ UNCHANGED <<port, proxy, executable, environ, os_name, pc, exc,
                   servers, op, nops>>

\* Faulty variant of heartbeat_call: the except clause is missing, so a
\* socket.error ends the thread.
heartbeat_call_uncaught(i, ok) ==
    /\ i \in 1 .. Len(emitters)
    /\ emitters[i].pc = "heartbeat"
    /\ emitters' = [emitters EXCEPT
                      ![i].caught = FALSE,
                      ![i].pc = IF ok THEN "sleep" ELSE "dead"]
    /\ UNCHANGED <<port, proxy, executable, environ, os_name, pc, exc,
                   servers, launch, op, nops>>

\* proxy.heartbeat(port): on an answer the thread goes on to sleep, on
\* socket.error/timeout the except clause passes and the loop repeats
\* (caught: the latest call ended in the except clause).
heartbeat_call(i, ok) ==
    /\ i \in 1 .. Len(emitters)
    /\ emitters[i].pc = "heartbeat"
    /\ emitters' = [emitters EXCEPT
                      ![i].caught = ~ok,
                      ![i].pc = IF ok THEN "sleep" ELSE "heartbeat"]
    /\ UNCHANGED <<port, proxy, executable, environ, os_name, pc, exc,
                   servers, launch, op, nops>>

\* time.sleep(1) is over.
heartbeat_sleep(i) ==
    /\ i \in 1 .. Len(emitters)
    /\ emitters[i].pc = "sleep"
    /\ emitters' = [emitters EXCEPT ![i].pc = "heartbeat"]
    /\ UNCHANGED <<port, proxy, executable, environ, os_name, pc, exc,
                   servers, launch, op, nops>>

\* ------------------------------------------------------ specification
Setup ==
    \/ \E console \in BOOLEAN : setup_begin(console)
    \/ \E answer \in {None} \cup {Some(p) : p \in WorkerPorts} :
          setup_find(answer)
    \/ \E spawnOk \in BOOLEAN : setup_except(spawnOk)
    \/ \E alive \in BOOLEAN : setup_poll(alive)
    \/ setup_finally
    \/ \E ok \in BOOLEAN : serve_server(ok)
    \/ \E ok \in BOOLEAN : serve_heartbeat_emitter(ok)
    \/ serve_return

Show ==
    \/ show_begin
    \/ \E ok \in BOOLEAN : show_try(ok)
    \/ \E spawnOk \in BOOLEAN : show_except(spawnOk)
    \/ \E ok \in BOOLEAN : show_finally(ok)

Preload == \E spawnOk \in BOOLEAN : preload(spawnOk)

Register == \E e \in Executables : register_python_executable(e)

\* The first step of a started thread.
Begin ==
    \/ \E i \in 1 .. Len(servers) : server_begin(i)
    \/ \E i \in 1 .. Len(emitters) : heartbeat_emitter_begin(i)

Threads ==
    \/ Begin
    \/ \E i \in 1 .. Len(servers), bound \in BOOLEAN : server(i, bound)
    \/ \E i \in 1 .. Len(emitters) : heartbeat_proxy(i)
    \/ \E i \in 1 .. Len(emitters), ok \in BOOLEAN : heartbeat_call(i, ok)
    \/ \E i \in 1 .. Len(emitters) : heartbeat_sleep(i)

Next == Setup \/ Show \/ Preload \/ Register \/ Threads

Spec == Init /\ [][Next]_vars

\* The threads a behaviour can have: one emitter and one server for each
\* setup() at most.
Units == 1 .. MaxOps

\* setup() calls and the threads they start, for the liveness properties.
SetupAndThreads == (Setup \/ Threads) /\ nops' <= MaxFairOps

\* A started daemon thread keeps being scheduled: emitter i begins to run,
\* makes its proxy, and comes back from time.sleep(1).  No fairness is put
\* on proxy.heartbeat(port): whether a call answers is up to the worker,
\* and a call that fails like the one before it changes nothing in the
\* state, so the worker may fail every call for ever.
EmitterFair(i) ==
    /\ WF_vars(heartbeat_emitter_begin(i))
    /\ WF_vars(heartbeat_proxy(i))
    /\ WF_vars(heartbeat_sleep(i))

\* The emitter threads scheduled fairly.  Nothing is assumed about the
\* main thread, the server threads or the answers of the worker.
FairThreads ==
    Init /\ [][SetupAndThreads]_vars /\ \A i \in Units : EmitterFair(i)

\* The main thread scheduled fairly while it is inside setup(), and every
\* thread handed to the scheduler begins to run (t.start() waits for
\* that).  Nothing is assumed about the later steps of the threads.
FairSetup ==
    /\ Init /\ [][SetupAndThreads]_vars
    /\ WF_vars(Setup /\ nops' <= MaxFairOps)
    /\ WF_vars(Begin)

\* ------------------------------------------------------------ properties
SetupOver == op.kind = "setup" /\ op.status # "running"
ShowOver == op.kind = "show" /\ op.status # "running"

\* The latest setup() before the current call returned normally and logged
\* "Integration successful!".
AfterSuccessfulSetup ==
    /\ op.prev.status = "returned"
    /\ op.prev.log = ServeReturned

\* C1: a setup() that launched a worker and found it exited at poll() starts
\* neither the RPC server nor the heartbeat emitter.
C1_DeadWorkerStartsNoUnit ==
    (SetupOver /\ op.find = "fail" /\ op.spawned = 1 /\ op.polled = "exited")
        => (op.servers = 0 /\ op.emitters = 0)

\* C2: setup() never raises to its caller, whatever the outcome of the port
\* query, the launch, the poll and the start of the threads.
C2_SetupNeverRaises ==
    op.kind = "setup" => op.status # "raised"

\* C3: a show() after a successful setup(), with the worker answering every
\* call, is seen by the worker as exactly one show(port) call.
C3_OneShowObserved ==
    (ShowOver /\ AfterSuccessfulSetup /\ op.first = "ok" /\ op.final = "ok")
        => op.showAcks = 1

\* C4: when the first show(port) of a show() fails with a connectivity error,
\* exactly one worker launch is attempted and then exactly one final
\* show(port) call is made, whether or not the launch worked.
C4_OneRebootstrapOneFinalShow ==
    (op.kind = "show" /\ op.first = "fail") =>
        /\ pc = "show_except" =>
              (op.launches = 0 /\ op.showCalls = 1 /\ op.final = "none")
        /\ pc = "show_finally" =>
              (op.launches = 1 /\ op.showCalls = 1 /\ op.final = "none")
        /\ ShowOver =>
              (op.launches = 1 /\ op.showCalls = 2 /\ op.final # "none")

\* A show() whose first call failed and whose re-launch failed too is over.
C4_Witness ==
    ShowOver /\ op.first = "fail" /\ op.launches = 1 /\ op.spawned = 0
        /\ op.final # "none"

\* C5: show() with self.port unset raises TypeError ("Integration not
\* initialised correctly") at once: no proxy call, no launch, and the module
\* state, the environment and the threads are as before.
C5_ShowBeforeSetup ==
    [][(pc = "idle" /\ port = None /\ nops' = nops + 1 /\ op'.kind = "show")
         => /\ op'.status = "raised"
            /\ op'.raised = "TypeError"
            /\ op'.showCalls = 0
            /\ op'.launches = 0
            /\ pc' = "idle"
            /\ UNCHANGED <<port, proxy, executable, environ, servers,
                           emitters, launch>>]_vars

\* A show() made with no port set has raised.
C5_Witness ==
    port = None /\ op.kind = "show" /\ op.status = "raised"
        /\ op.raised = "TypeError"

\* C6: a show() that no successful setup() precedes raises the
\* not-initialised error; in particular after a setup() that raised because
\* the launch failed or the launched worker had exited.
C6_ShowAfterFailedSetupRaises ==
    (op.kind = "show" /\ op.prev.status \in {"none", "raised"})
        => (op.status = "raised" /\ op.raised = "TypeError")

\* C7: with the port set, no connectivity error leaves show().
C7_ShowSwallowsConnectivityErrors ==
    op.kind = "show" => op.raised # "socket.error"

\* C8: when the worker answers find_available_port(), self.port is the
\* answer and setup() launches no worker.
C8_LiveWorkerPortNoLaunch ==
    (op.kind = "setup" /\ op.find = "ok")
        => (port = op.found /\ op.launches = 0)

\* A setup() is over in which the worker answered a port other than the
\* default one.
C8_Witness ==
    SetupOver /\ op.find = "ok" /\ op.found = Some(first_port + 1)

\* C9: when find_available_port() fails with a connectivity error, self.port
\* is the default port and setup() attempts exactly one launch.
C9_DeadWorkerDefaultPortOneLaunch ==
    (op.kind = "setup" /\ op.find = "fail" /\ pc # "setup_except")
        => (port = Some(first_port) /\ op.launches = 1)

\* A setup() that fell back to the default port is over, after an earlier
\* setup() had negotiated another port.
C9_Witness ==
    /\ SetupOver /\ op.find = "fail"
    /\ \E i \in 1 .. Len(servers) : servers[i].port = Some(first_port + 1)

\* C10: when setup() spawns a worker, the negotiated port is already in the
\* environment the worker inherits.
C10_PortPublishedBeforeSpawn ==
    (op.kind = "setup" /\ op.spawned = 1)
        => Get(launch).environ[PYBLISH_CLIENT_PORT] = Some(Str(port))

\* Emitter i has been started.
Started(i) == i <= Len(emitters)

\* C11: a started heartbeat emitter never ends and never leaves its loop:
\* whatever the answers of the worker, under fair scheduling it is at its
\* proxy.heartbeat(port) call again and again.
C11_EmitterBeatsForever ==
    /\ [](\A i \in 1 .. Len(emitters) :
             emitters[i].pc \in {"created", "init", "heartbeat", "sleep"})
    /\ \A i \in Units :
          Started(i) ~> (Started(i) /\ emitters[i].pc = "heartbeat")

\* An emitter whose latest heartbeat failed is at the call again.
C11_Witness ==
    /\ Started(1)
    /\ emitters[1].pc = "heartbeat" /\ emitters[1].caught

\* C12: between two consecutive proxy.heartbeat(port) calls of one emitter
\* there is one sleep: a call is never made while the latest call of that
\* emitter ended in the except clause with no sleep since.
C12_SleepBetweenHeartbeats ==
    [][\A i \in 1 .. Len(emitters) :
          (emitters[i].pc = "heartbeat" /\ emitters'[i] # emitters[i])
              => ~emitters[i].caught]_vars

\* C13: when the server thread a setup() started fails to bind its port,
\* that setup() has logged a failure instead of "Integration successful!".
C13_BindFailureLogged ==
    (SetupOver /\ op.servers = 1 /\ servers[Len(servers)].pc = "failed")
        => op.log = ServeRaised

\* C14: setup() does not wait for the threads it starts to do their work or
\* to end: with the main thread running and every started thread beginning
\* to run (which t.start() waits for), every setup() call comes to its end,
\* whatever the threads do afterwards, and it ends by returning when the
\* worker answered or the launched worker was alive.
C14_SetupTerminates ==
    /\ (op.kind = "setup" /\ op.status = "running") ~> SetupOver
    /\ [](SetupOver /\ (op.find = "ok" \/ op.polled = "alive")
            => op.status = "returned")

\* A setup() has returned while the two threads it started have begun to
\* run and have done nothing yet: the port is not bound, no heartbeat sent.
C14_Witness ==
    /\ SetupOver /\ op.status = "returned"
    /\ op.servers = 1 /\ servers[Len(servers)].pc = "starting"
    /\ op.emitters = 1 /\ emitters[Len(emitters)].pc = "init"

\* C15: self.port is assigned by setup() only: every step that changes it
\* is setup's find_available_port() or setup's except clause; show() with
\* its re-launch, preload(), register_python_executable() and the threads
\* leave it as it is.
C15_PortChangedOnlyBySetup ==
    [][port' # port
         => (op.kind = "setup" /\ pc \in {"setup_find", "setup_except"})]_vars

\* A show() that re-launched the worker is over, an interpreter is
\* registered, an emitter is running, and the port is still the one the
\* worker answered to setup().
C15_Witness ==
    /\ ShowOver /\ op.first = "fail" /\ op.launches = 1
    /\ executable # None
    /\ \E i \in 1 .. Len(emitters) : emitters[i].pc = "sleep"
    /\ port = Some(first_port + 1)

ServeSucceeded(o) == o.log = ServeReturned

\* C16 as first stated: every setup() call starts one server thread and one
\* emitter thread.
C16_EverySetupStartsBothUnits ==
    SetupOver => (op.servers = 1 /\ op.emitters = 1)

\* C16: a setup() call whose _serve() does not raise starts exactly one
\* server thread and one emitter thread, both on self.port; when a thread
\* fails to start, no emitter and at most the server is started.  Threads
\* are added by the two t.start() steps of _serve() only, one at a time;
\* no step removes a thread or changes the port it was started with, an
\* emitter never leaves its loop, and a step of a server thread (a failed
\* bind included) leaves the emitters alone, as a step of an emitter
\* leaves the servers alone.
C16_UnitsPerSetup ==
    [][/\ SubSeq(servers', 1, Len(servers)) = servers
            \/ Len(servers') = Len(servers)
       /\ SubSeq(emitters', 1, Len(emitters)) = emitters
            \/ Len(emitters') = Len(emitters)
       /\ \A i \in 1 .. Len(servers) : servers'[i].port = servers[i].port
       /\ \A i \in 1 .. Len(emitters) :
             /\ emitters'[i].port = emitters[i].port
             /\ emitters'[i].pc \in {"created", "init", "heartbeat", "sleep"}
       /\ Len(servers') # Len(servers) =>
             /\ pc = "serve_server" /\ op.servers = 0 /\ op'.servers = 1
             /\ Len(servers') = Len(servers) + 1
             /\ servers'[Len(servers')].port = port
       /\ Len(emitters') # Len(emitters) =>
             /\ pc = "serve_heartbeat_emitter"
             /\ op.emitters = 0 /\ op'.emitters = 1
             /\ Len(emitters') = Len(emitters) + 1
             /\ emitters'[Len(emitters')].port = port
       /\ (op'.kind = "setup" /\ op'.status # "running") =>
             IF ServeSucceeded(op')
             THEN op'.servers = 1 /\ op'.emitters = 1
             ELSE op'.servers <= 1 /\ op'.emitters = 0
       /\ servers' # servers => emitters' = emitters
       /\ emitters' # emitters => servers' = servers]_vars

\* After two setup() calls on different ports, the first server thread has
\* failed to bind and the first emitter goes on with its own port.
C16_Witness ==
    /\ Len(emitters) = 2 /\ Len(servers) = 2
    /\ emitters[1].port # emitters[2].port
    /\ servers[1].pc = "failed"
    /\ emitters[1].pc = "sleep"

\* C17: an emitter calls the worker through a handle of its own: the handle
\* it holds is never self.proxy and never the handle of another emitter,
\* and self.proxy is always a handle made on the main thread.
C17_EmitterOwnsItsProxy ==
    /\ proxy # None => Get(proxy).thread = "main"
    /\ \A i \in 1 .. Len(emitters) :
          /\ emitters[i].pc \in {"heartbeat", "sleep"}
                => emitters[i].proxy # None
          /\ emitters[i].proxy # proxy
          /\ \A j \in 1 .. Len(emitters) :
                (j # i /\ emitters[i].proxy # None)
                    => emitters[j].proxy # emitters[i].proxy

\* The main thread is inside show(), between its two proxy.show(port) calls
\* on self.proxy, while an emitter is in its loop with its handle.
C17_Witness ==
    /\ pc = "show_finally" /\ proxy # None
    /\ \E i \in 1 .. Len(emitters) :
          emitters[i].pc = "heartbeat" /\ emitters[i].proxy # None

\* C18: once setup() is over, self.port, the published PYBLISH_CLIENT_PORT
\* and the ports handed to the server and emitter threads this call started
\* are one value, whether the worker answered or the launch failed; and
\* whenever the main thread is idle with a port, the published port is it.
C18_OnePortEverywhere ==
    /\ SetupOver =>
          /\ port # None
          /\ environ[PYBLISH_CLIENT_PORT] = Some(Str(port))
          /\ op.servers = 1 => servers[Len(servers)].port = port
          /\ op.emitters = 1 => emitters[Len(emitters)].port = port
    /\ (pc = "idle" /\ port # None)
          => environ[PYBLISH_CLIENT_PORT] = Some(Str(port))

\* The launch failed with OSError and the finally clause still started both
\* threads on the default port.
C18_Witness ==
    /\ SetupOver /\ op.raised = "OSError"
    /\ op.servers = 1 /\ op.emitters = 1
    /\ emitters[Len(emitters)].port = Some(first_port)

\* Connectivity failures of the calls that are followed by a launch.
FacadeFailures(o) ==
    (IF o.find = "fail" THEN 1 ELSE 0) + (IF o.first = "fail" THEN 1 ELSE 0)

\* C19 as first stated: a Popen call is made only by the except clause of
\* setup() or of show(), right after find_available_port() or the first
\* proxy.show() failed; no step of a background thread launches; a call
\* never launches more often than it saw those failures.
C19_LaunchOnlyFromFacade ==
    [][/\ (launch' # launch \/ op'.launches > op.launches) =>
             /\ pc \in {"setup_except", "show_except"}
             /\ pc = "setup_except" => op.find = "fail"
             /\ pc = "show_except" => op.first = "fail"
             /\ op.launches = 0 /\ op'.launches = 1
             /\ launch' # None
             /\ emitters' = emitters /\ servers' = servers
       /\ (emitters' # emitters \/ servers' # servers) =>
             launch' = launch /\ op'.launches = op.launches
       /\ op'.launches <= FacadeFailures(op')
       /\ op'.status # "running" => op'.launches = FacadeFailures(op')]_vars

\* A step in which subprocess.Popen is called.
LaunchStep ==
    \/ launch' # launch
    \/ op'.launches > op.launches
    \/ nops' > nops /\ op'.kind = "preload"

\* C19: setup() and show() call Popen only in their except clause, right
\* after find_available_port() or the first proxy.show() failed, and never
\* more often than they saw those failures; no step of a background thread
\* launches.  Every other launch is a preload() call of the host itself.
C19_LaunchAfterFailureOrByHost ==
    [][/\ LaunchStep =>
             /\ launch' # None
             /\ op'.launches = 1
             /\ emitters' = emitters /\ servers' = servers
             /\ \/ pc = "setup_except" /\ op.find = "fail" /\ op.launches = 0
                \/ pc = "show_except" /\ op.first = "fail" /\ op.launches = 0
                \/ pc = "idle" /\ op'.kind = "preload" /\ nops' = nops + 1
       /\ (emitters' # emitters \/ servers' # servers) =>
             launch' = launch /\ op'.launches = op.launches
       /\ op'.kind \in {"setup", "show"} =>
             /\ op'.launches <= FacadeFailures(op')
             /\ op'.status # "running"
                   => op'.launches = FacadeFailures(op')]_vars

\* show() launched once after its first proxy.show failed, and an emitter
\* has since caught a failed heartbeat without a launch being added.
C19_Witness ==
    /\ op.kind = "show" /\ op.first = "fail" /\ op.launches = 1
    /\ \E i \in 1 .. Len(emitters) :
          emitters[i].caught /\ emitters[i].pc = "heartbeat"

\* C20: the flag PYBLISH_QML_CONSOLE, once set, is never cleared or changed
\* by any step, setup(console=False) included; setup(console=True) sets
\* it; and every launch, from setup(), from show() or by preload() called
\* directly, suppresses the console (creationflags = CREATE_NO_WINDOW)
\* exactly when the flag is unset and the platform is "nt", and has
\* creationflags 0 otherwise.
C20_ConsoleFlagSticky ==
    [][/\ environ[PYBLISH_QML_CONSOLE] # None
            => environ'[PYBLISH_QML_CONSOLE] = environ[PYBLISH_QML_CONSOLE]
       /\ (op'.kind = "setup" /\ op'.console)
            => environ'[PYBLISH_QML_CONSOLE] = Some("1")
       /\ (pc = "idle" /\ pc' = "setup_find" /\ ~op'.console)
            => environ'[PYBLISH_QML_CONSOLE] = environ[PYBLISH_QML_CONSOLE]
       /\ LaunchStep =>
            /\ launch' # None
            /\ Get(launch').environ[PYBLISH_QML_CONSOLE]
                  = environ[PYBLISH_QML_CONSOLE]
            /\ Get(launch').kwargs.creationflags
                  = IF os_name = "nt" /\ environ[PYBLISH_QML_CONSOLE] = None
                    THEN CREATE_NO_WINDOW ELSE 0]_vars

\* A second setup(), called with console=False while the flag is set, has
\* launched a worker on "nt" with the console not suppressed.
C20_Witness ==
    /\ op.kind = "setup" /\ ~op.console /\ op.prev.status # "none"
    /\ os_name = "nt" /\ environ[PYBLISH_QML_CONSOLE] = Some("1")
    /\ op.launches = 1 /\ launch # None
    /\ Get(launch).kwargs.creationflags = 0
    /\ Get(launch).environ[PYBLISH_CLIENT_PORT] # None
====
